---- MODULE Spec2Model ----
(***************************************************************************)
(* The coinjoin secret contract (secret_contracts/coinjoin/src/lib.rs):    *)
(* the persisted state, the three entrypoints construct, get_pub_key and   *)
(* execute_deal, and the caller that assembles a deal before invoking      *)
(* execute_deal.  An entrypoint runs to completion in one step; a panic    *)
(* ends the invocation with no return value and no external call.          *)
(*                                                                         *)
(* Byte arrays are sequences of fixed-width chunks plus a count of         *)
(* trailing bytes; keys, points, ciphertexts and signatures are symbolic.  *)
(* nb_recipients.low_u64() as usize is the identity on the counts used.    *)
(***************************************************************************)
EXTENDS Integers, Sequences, FiniteSets, TLC

\* ------------------------------------------------------------------ bounds
MaxRecipients == 3

\* ------------------------------------------------------- program constants
MIXER_ETH_ADDR == "mixer_eth_addr"
ENCRYPTION_KEY == "encryption_key"
ENC_RECIPIENT_SIZE == 70
PUB_KEY_SIZE == 64
AMOUNT_SIZE == 32
SIG_SIZE == 65
SENDER_SIZE == 20
seed == 10

\* ------------------------------------------------------------ input values
\* H160 of the mixer contract, as bytes (shortened to two bytes)
MixerAddrs == {<<0, 171>>, <<18, 52>>}
\* outcomes of generate_key(): valid secret keys (the 32-byte strings that
\* are no secret key of the curve have negligible probability)
SymmetricKeys == {"k1", "k2"}
\* recipient addresses a sender may encrypt
Recipients == {"a1", "a2", "a3"}
\* H256 deal identifier, as bytes (shortened to two bytes)
DealIds == {<<1, 2>>}
Amounts == {5}

NoAddr == "none"
NoPoint == "none"

\* ----------------------------------------------------------------- results
\* Result<T, E> / Option<T>: val is meaningful only when ok
Ok(v) == [ok |-> TRUE, val |-> v]
Err(v) == [ok |-> FALSE, val |-> v]

\* ------------------------------------------------------------ conversions
HexDigit(n) == <<"0", "1", "2", "3", "4", "5", "6", "7", "8", "9", "a", "b", "c", "d", "e", "f">>[n + 1]

RECURSIVE to_hex(_)
to_hex(bytes) ==
  IF bytes = <<>> THEN <<>>
  ELSE <<HexDigit(Head(bytes) \div 16), HexDigit(Head(bytes) % 16)>> \o to_hex(Tail(bytes))

RECURSIVE U256_from(_)
U256_from(bytes) ==
  IF bytes = <<>> THEN 0
  ELSE bytes[Len(bytes)] + 256 * U256_from(SubSeq(bytes, 1, Len(bytes) - 1))

\* ---------------------------------------------------------- enigma_crypto
\* public key of a secret key
PubOf(k) == <<"pub", k>>

\* KeyPair::from_slice: fails on a slice that is no valid secret key
KeyPair_from_slice(key) ==
  IF key \in SymmetricKeys THEN Ok([priv |-> key, pub |-> PubOf(key)])
  ELSE Err([priv |-> key, pub |-> PubOf(key)])

\* the 64-byte strings that are points of the curve; a user may also send
\* u_bad, which is none
CurvePoints == {"u1"}

\* KeyPair::derive_key: the ECDH secret of the contract key and the user key
derive_key(keypair, user_pubkey) ==
  IF user_pubkey \in CurvePoints THEN Ok(<<keypair.priv, user_pubkey>>)
  ELSE Err(<<keypair.priv, user_pubkey>>)

\* the ciphertext of plaintext under a shared key
Encrypt(plaintext, shared_key) == [key |-> shared_key, plain |-> plaintext]

\* eng_wasm decrypt: authenticated decryption, fails under another key
decrypt(enc_recipient, shared_key) ==
  IF enc_recipient.key = shared_key THEN Ok(enc_recipient.plain)
  ELSE Err(enc_recipient.plain)

\* address of a signer's public key: keccak256(pubkey)[12..32]
AddrOfPub(p) ==
  CASE p = "P1" -> "s1"
    [] p = "P2" -> "s2"
    [] OTHER -> "sx"

\* KeyPair::recover: the public key a signature over message belongs to
recover(message, signature) ==
  IF ~signature.wellformed THEN Err(NoPoint)
  ELSE IF signature.msg = message THEN Ok(signature.signer)
  ELSE Ok("PX")

\* ------------------------------------------------------------------- state
VARIABLES
  store,        \* the persisted key-value state of the contract
  constructed,  \* whether construct has been invoked
  phase,        \* "idle", or "building" while a caller assembles a deal
  req,          \* arguments of the deal being assembled or last executed
  last,         \* entrypoint last invoked, how it ended, what it returned
  trace,        \* steps the last execute_deal performed, in order
  sig_log,      \* <<recovered signer, claimed sender>> printed per entry
  ordered,      \* the list printed as "The ordered recipients"
  distributed   \* the distribute call the last invocation made

vars == <<store, constructed, phase, req, last, trace, sig_log, ordered, distributed>>

\* read_state!(key)
read_state(s, key) == IF key \in DOMAIN s THEN Ok(s[key]) ELSE Err("")

\* write_state!(key => value)
write_state(s, key, value) ==
  [k \in DOMAIN s \cup {key} |-> IF k = key THEN value ELSE s[k]]

EmptyStore == [k \in {} |-> ""]

\* ------------------------------------------------------------ byte arrays
\* a Vec<u8> holding whole chunks followed by extra trailing bytes
Bytes(chunks, extra) == [chunks |-> chunks, extra |-> extra]

ByteLen(arr, size) == Len(arr.chunks) * size + arr.extra

\* &arr[i * size .. (i + 1) * size]: panics when the range ends past the array
Slice(arr, size, i) ==
  LET start == i * size
      end == (i + 1) * size
  IN IF end <= ByteLen(arr, size) THEN Ok(arr.chunks[i + 1]) ELSE Err("")

\* --------------------------------------------------------- signed message
\* the length-prefixed fields, hashed and prefixed, that a sender signs
prefixed_message(sender, amount, enc_recipient, user_pubkey) ==
  LET message == <<SENDER_SIZE, sender, AMOUNT_SIZE, amount,
                   ENC_RECIPIENT_SIZE, enc_recipient, PUB_KEY_SIZE, user_pubkey>>
  IN <<25, "Ethereum Signed Message:", 10, "32", message>>

Sign(signer, sender, amount, enc_recipient, user_pubkey) ==
  [wellformed |-> TRUE, signer |-> signer,
   msg |-> prefixed_message(sender, amount, enc_recipient, user_pubkey)]

Malformed(sender, amount, enc_recipient, user_pubkey) ==
  [wellformed |-> FALSE, signer |-> NoPoint,
   msg |-> prefixed_message(sender, amount, enc_recipient, user_pubkey)]

\* Ok(address of the recovered signer), or Err when recovery panics
verify_signature(signature, sender, amount, enc_recipient, user_pubkey) ==
  LET sender_pubkey ==
        recover(prefixed_message(sender, amount, enc_recipient, user_pubkey), signature)
  IN IF ~sender_pubkey.ok THEN Err(NoAddr)
     ELSE Ok(AddrOfPub(sender_pubkey.val))

\* ------------------------------------------------------ private functions
get_mixer_eth_addr(s) ==
  LET r == read_state(s, MIXER_ETH_ADDR) IN IF r.ok THEN r.val ELSE <<>>

\* get_pkey reading the key with unwrap_or_default(): an all-zero key
get_pkey_default(s) ==
  LET r == read_state(s, ENCRYPTION_KEY) IN IF r.ok THEN r ELSE Ok("k_zero")

\* Err stands for the panic of unwrap() on a missing key
get_pkey(s) == read_state(s, ENCRYPTION_KEY)

get_keypair(s) ==
  LET key == get_pkey(s)
  IN IF ~key.ok THEN Err("NoKey")
     ELSE LET kp == KeyPair_from_slice(key.val)
          IN IF ~kp.ok THEN Err("BadKey") ELSE kp

\* --------------------------------------------------- execute_deal: entries
Step(name, i) == [step |-> name, i |-> i]

\* what processing one entry yields: err is "" unless the entry panicked
EntryOk(steps, recipient, sig_sender, sender) ==
  [err |-> "", steps |-> steps, recipient |-> recipient,
   sig_sender |-> sig_sender, sender |-> sender]

EntryPanic(err, steps) ==
  [err |-> err, steps |-> steps, recipient |-> NoAddr,
   sig_sender |-> NoAddr, sender |-> NoAddr]

\* the body of the loop with the signature verified before the decryption
entry_body_sig_first(i, rq, keypair) ==
  LET enc == Slice(rq.enc_recipients, ENC_RECIPIENT_SIZE, i)
      t1 == <<Step("slice_enc_recipient", i)>>
  IN IF ~enc.ok THEN EntryPanic("slice_enc_recipient", t1) ELSE
  LET enc_recipient == enc.val
      pk == Slice(rq.pub_keys, PUB_KEY_SIZE, i)
      t2 == Append(t1, Step("slice_pub_key", i))
  IN IF ~pk.ok THEN EntryPanic("slice_pub_key", t2) ELSE
  LET user_pubkey == pk.val
      sd == Slice(rq.senders, SENDER_SIZE, i)
      t3 == Append(t2, Step("slice_sender", i))
  IN IF ~sd.ok THEN EntryPanic("slice_sender", t3) ELSE
  LET sender == sd.val
      sg == Slice(rq.signatures, SIG_SIZE, i)
      t4 == Append(t3, Step("slice_signature", i))
  IN IF ~sg.ok THEN EntryPanic("slice_signature", t4) ELSE
  LET signature == sg.val
      sig_sender == verify_signature(signature, sender, rq.amount, enc_recipient, user_pubkey)
      t5 == Append(t4, Step("verify_signature", i))
  IN IF ~sig_sender.ok THEN EntryPanic("verify_signature", t5) ELSE
  LET shared_key == derive_key(keypair, user_pubkey)
      t6 == Append(t5, Step("derive_key", i))
  IN IF ~shared_key.ok THEN EntryPanic("derive_key", t6) ELSE
  LET plaintext == decrypt(enc_recipient, shared_key.val)
      t7 == Append(t6, Step("decrypt", i))
  IN IF ~plaintext.ok THEN EntryPanic("decrypt", t7) ELSE
  EntryOk(t7, plaintext.val[1], sig_sender.val, sender)

\* the body of the loop over the entries, for entry i
entry_body(i, rq, keypair) ==
  LET enc == Slice(rq.enc_recipients, ENC_RECIPIENT_SIZE, i)
      t1 == <<Step("slice_enc_recipient", i)>>
  IN IF ~enc.ok THEN EntryPanic("slice_enc_recipient", t1) ELSE
  LET enc_recipient == enc.val
      pk == Slice(rq.pub_keys, PUB_KEY_SIZE, i)
      t2 == Append(t1, Step("slice_pub_key", i))
  IN IF ~pk.ok THEN EntryPanic("slice_pub_key", t2) ELSE
  LET user_pubkey == pk.val
      sd == Slice(rq.senders, SENDER_SIZE, i)
      t3 == Append(t2, Step("slice_sender", i))
  IN IF ~sd.ok THEN EntryPanic("slice_sender", t3) ELSE
  LET sender == sd.val
      shared_key == derive_key(keypair, user_pubkey)
      t4 == Append(t3, Step("derive_key", i))
  IN IF ~shared_key.ok THEN EntryPanic("derive_key", t4) ELSE
  LET plaintext == decrypt(enc_recipient, shared_key.val)
      t5 == Append(t4, Step("decrypt", i))
  IN IF ~plaintext.ok THEN EntryPanic("decrypt", t5) ELSE
  LET recipient == plaintext.val[1]
      sg == Slice(rq.signatures, SIG_SIZE, i)
      t6 == Append(t5, Step("slice_signature", i))
  IN IF ~sg.ok THEN EntryPanic("slice_signature", t6) ELSE
  LET signature == sg.val
      sig_sender == verify_signature(signature, sender, rq.amount, enc_recipient, user_pubkey)
      t7 == Append(t6, Step("verify_signature", i))
  IN IF ~sig_sender.ok THEN EntryPanic("verify_signature", t7) ELSE
  EntryOk(t7, recipient, sig_sender.val, sender)

\* after_verify pushing the recipient only when the signer is the sender
after_verify_checked(acc, e, i) ==
  [err |-> "",
   recipients |-> IF e.sig_sender = e.sender THEN Append(acc.recipients, e.recipient)
                  ELSE acc.recipients,
   trace |-> acc.trace \o e.steps \o
             (IF e.sig_sender = e.sender THEN <<Step("push", i)>> ELSE <<>>),
   sig_log |-> Append(acc.sig_log, <<e.sig_sender, e.sender>>)]

\* what follows verify_signature: the comparison is printed, the recipient pushed
after_verify(acc, e, i) ==
  [err |-> "",
   recipients |-> Append(acc.recipients, e.recipient),
   trace |-> acc.trace \o e.steps \o <<Step("push", i)>>,
   sig_log |-> Append(acc.sig_log, <<e.sig_sender, e.sender>>)]

\* entry_panicked with the failure caught: the loop ends, the list is kept
entry_swallowed(acc, e, i) ==
  [err |-> "", recipients |-> acc.recipients, trace |-> acc.trace \o e.steps,
   sig_log |-> acc.sig_log]

\* a panic inside entry i ends the loop; the local list is dropped
entry_panicked(acc, e, i) ==
  [err |-> e.err, recipients |-> <<>>, trace |-> acc.trace \o e.steps,
   sig_log |-> acc.sig_log]

\* loop_end for an inclusive range, 0..=nb_recipients
loop_end_inclusive(nb_recipients) == nb_recipients + 1

\* nb_recipients.low_u64() as usize, the exclusive end of the range of the loop
loop_end(nb_recipients) == nb_recipients

\* for i in 0..end { ... }, from entry i on
RECURSIVE for_entries(_, _, _, _, _)
for_entries(i, end, rq, keypair, acc) ==
  IF i >= end THEN acc
  ELSE LET e == entry_body(i, rq, keypair)
       IN IF e.err # "" THEN entry_panicked(acc, e, i)
          ELSE for_entries(i + 1, end, rq, keypair, after_verify(acc, e, i))

\* --------------------------------------------------- execute_deal: shuffle
\* positions are 0-based as in the source; sequences are 1-based
\* shuffle_index with the position added to the seed
shuffle_index_offset(i) == (seed + i) % (i + 1)

shuffle_index(i) == seed % (i + 1)

\* swap without the write back to position i
swap_dup(recipients, i, j) ==
  [recipients EXCEPT ![j + 1] = recipients[i + 1]]

swap(recipients, i, j) ==
  LET recipient == recipients[j + 1]
      r1 == [recipients EXCEPT ![j + 1] = recipients[i + 1]]
  IN [r1 EXCEPT ![i + 1] = recipient]

\* for i in (0..recipients.len()).rev(), from position i down
RECURSIVE shuffle_from(_, _)
shuffle_from(recipients, i) ==
  IF i < 0 THEN recipients
  ELSE shuffle_from(swap(recipients, i, shuffle_index(i)), i - 1)

shuffle(recipients) == shuffle_from(recipients, Len(recipients) - 1)

\* ------------------------------------------------------------ entrypoints
NoDistribute == [called |-> FALSE, contract |-> <<>>, deal_id |-> 0, recipients |-> <<>>]
NotPrinted == [printed |-> FALSE, list |-> <<>>]

\* an invocation of execute_deal that ended in a panic
DealPanic(s, err, acc) ==
  [err |-> err, ret |-> <<>>, trace |-> acc.trace, sig_log |-> acc.sig_log,
   ordered |-> NotPrinted, distributed |-> NoDistribute, store |-> s]

\* the whole of execute_deal on the persisted state s and the arguments rq
run_execute_deal(s, rq) ==
  LET keypair == get_keypair(s)
      acc0 == [err |-> "", recipients |-> <<>>, trace |-> <<>>, sig_log |-> <<>>]
  IN IF ~keypair.ok THEN DealPanic(s, keypair.val, acc0)
     ELSE LET acc == for_entries(0, loop_end(rq.nb_recipients), rq, keypair.val, acc0)
          IN IF acc.err # "" THEN DealPanic(s, acc.err, acc)
             ELSE LET mixed == shuffle(acc.recipients)
                      mixer_eth_addr == get_mixer_eth_addr(s)
                      deal_id_uint == U256_from(rq.deal_id)
                  IN [err |-> "", ret |-> mixed,
                      trace |-> acc.trace \o <<Step("shuffle", Len(mixed)), Step("distribute", Len(mixed))>>,
                      sig_log |-> acc.sig_log,
                      ordered |-> [printed |-> TRUE, list |-> acc.recipients],
                      distributed |-> [called |-> TRUE, contract |-> mixer_eth_addr,
                                       deal_id |-> deal_id_uint, recipients |-> mixed],
                      store |-> s]

\* get_pub_key creating and persisting a key when none is stored
run_get_pub_key_lazy(s) ==
  LET s1 == IF ENCRYPTION_KEY \in DOMAIN s THEN s ELSE write_state(s, ENCRYPTION_KEY, "k1")
      keypair == get_keypair(s1)
  IN IF ~keypair.ok THEN [err |-> keypair.val, ret |-> <<>>, store |-> s1]
     ELSE [err |-> "", ret |-> keypair.val.pub, store |-> s1]

\* the whole of get_pub_key on the persisted state s
run_get_pub_key(s) ==
  LET key == get_pkey(s)
  IN IF ~key.ok THEN [err |-> "NoKey", ret |-> <<>>, store |-> s]
     ELSE LET keypair == get_keypair(s)
          IN IF ~keypair.ok THEN [err |-> keypair.val, ret |-> <<>>, store |-> s]
             ELSE [err |-> "", ret |-> keypair.val.pub, store |-> s]

\* the persisted state after construct(mixer_eth_addr) drew key from generate_key()
run_construct(s, mixer_eth_addr, key) ==
  LET mixer_eth_addr_str == to_hex(mixer_eth_addr)
      s1 == write_state(s, MIXER_ETH_ADDR, mixer_eth_addr_str)
  IN write_state(s1, ENCRYPTION_KEY, key)

\* ------------------------------------------------------- the caller's deal
NoBytes == Bytes(<<>>, 0)

NoReq ==
  [deal_id |-> <<>>, nb_recipients |-> 0, amount |-> 0, pub_keys |-> NoBytes,
   enc_recipients |-> NoBytes, senders |-> NoBytes, signatures |-> NoBytes]

ArrayFields == {"pub_keys", "enc_recipients", "senders", "signatures"}

Stride(f) ==
  CASE f = "pub_keys" -> PUB_KEY_SIZE
    [] f = "enc_recipients" -> ENC_RECIPIENT_SIZE
    [] f = "senders" -> SENDER_SIZE
    [] f = "signatures" -> SIG_SIZE

\* every array is exactly nb_recipients entries long
LengthsMatch(rq) ==
  \A f \in ArrayFields : ByteLen(rq[f], Stride(f)) = rq.nb_recipients * Stride(f)

\* an entry as a sender submits it: the recipient encrypted under ct_key,
\* and a signature of P1 over the entry, or a malformed one
MkEntry(user_pubkey, ct_key, addr, sender, signed, amount) ==
  LET enc == Encrypt(<<addr, "pad">>, ct_key)
  IN [pub_key |-> user_pubkey, enc_recipient |-> enc, sender |-> sender,
      signature |-> IF signed THEN Sign("P1", sender, amount, enc, user_pubkey)
                    ELSE Malformed(sender, amount, enc, user_pubkey)]

\* the secret user u1 shares with the contract key k1, and one nobody holds
GoodSecret == <<"k1", "u1">>
NoSecret == <<"k1", "tampered">>

\* well-formed entries of sender s1, and entries with one field (or both the
\* ciphertext and the signature) off
Entries(amount) ==
  {MkEntry("u1", GoodSecret, a, "s1", TRUE, amount) : a \in Recipients}
  \cup {MkEntry("u_bad", GoodSecret, "a1", "s1", TRUE, amount),
        MkEntry("u1", NoSecret, "a1", "s1", TRUE, amount),
        MkEntry("u1", GoodSecret, "a1", "s2", TRUE, amount),
        MkEntry("u1", GoodSecret, "a1", "s1", FALSE, amount),
        MkEntry("u1", NoSecret, "a1", "s1", FALSE, amount)}

Cleared == [op |-> "none", err |-> "", ret |-> <<>>]

\* ----------------------------------------------------------------- actions
Init ==
  /\ store = EmptyStore
  /\ constructed = FALSE
  /\ phase = "idle"
  /\ req = NoReq
  /\ last = Cleared
  /\ trace = <<>>
  /\ sig_log = <<>>
  /\ ordered = NotPrinted
  /\ distributed = NoDistribute

construct(mixer_eth_addr) ==
  /\ phase = "idle"
  /\ \E key \in SymmetricKeys : store' = run_construct(store, mixer_eth_addr, key)
  /\ constructed' = TRUE
  /\ last' = [op |-> "construct", err |-> "", ret |-> <<>>]
  /\ req' = NoReq
  /\ trace' = <<>>
  /\ sig_log' = <<>>
  /\ ordered' = NotPrinted
  /\ distributed' = NoDistribute
  /\ UNCHANGED phase

get_pub_key ==
  /\ phase = "idle"
  /\ LET r == run_get_pub_key(store)
     IN /\ store' = r.store
        /\ last' = [op |-> "get_pub_key", err |-> r.err, ret |-> r.ret]
  /\ req' = NoReq
  /\ trace' = <<>>
  /\ sig_log' = <<>>
  /\ ordered' = NotPrinted
  /\ distributed' = NoDistribute
  /\ UNCHANGED <<constructed, phase>>

\* a caller starts assembling the arguments of a deal
NewDeal(deal_id, amount) ==
  /\ phase = "idle"
  /\ phase' = "building"
  /\ req' = [NoReq EXCEPT !.deal_id = deal_id, !.amount = amount]
  /\ last' = Cleared
  /\ trace' = <<>>
  /\ sig_log' = <<>>
  /\ ordered' = NotPrinted
  /\ distributed' = NoDistribute
  /\ UNCHANGED <<store, constructed>>

\* the caller appends one entry to each of the four arrays
AddEntry(e) ==
  /\ phase = "building"
  /\ LengthsMatch(req)
  /\ req.nb_recipients < MaxRecipients
  /\ req' = [req EXCEPT
       !.nb_recipients = @ + 1,
       !.pub_keys = Bytes(Append(@.chunks, e.pub_key), 0),
       !.enc_recipients = Bytes(Append(@.chunks, e.enc_recipient), 0),
       !.senders = Bytes(Append(@.chunks, e.sender), 0),
       !.signatures = Bytes(Append(@.chunks, e.signature), 0)]
  /\ UNCHANGED <<store, constructed, phase, last, trace, sig_log, ordered, distributed>>

\* the caller sends array f one byte short
TruncateArray(f) ==
  /\ phase = "building"
  /\ LengthsMatch(req)
  /\ req.nb_recipients > 0
  /\ req' = [req EXCEPT ![f] =
       Bytes(SubSeq(@.chunks, 1, Len(@.chunks) - 1), Stride(f) - 1)]
  /\ UNCHANGED <<store, constructed, phase, last, trace, sig_log, ordered, distributed>>

\* the caller sends array f one byte long
PadArray(f) ==
  /\ phase = "building"
  /\ LengthsMatch(req)
  /\ req' = [req EXCEPT ![f] = Bytes(@.chunks, 1)]
  /\ UNCHANGED <<store, constructed, phase, last, trace, sig_log, ordered, distributed>>

\* the caller sends a count that is not the number of entries
Miscount(n) ==
  /\ phase = "building"
  /\ LengthsMatch(req)
  /\ n # req.nb_recipients
  /\ req' = [req EXCEPT !.nb_recipients = n]
  /\ UNCHANGED <<store, constructed, phase, last, trace, sig_log, ordered, distributed>>

execute_deal ==
  /\ phase = "building"
  /\ phase' = "idle"
  /\ LET r == run_execute_deal(store, req)
     IN /\ store' = r.store
        /\ last' = [op |-> "execute_deal", err |-> r.err, ret |-> r.ret]
        /\ trace' = r.trace
        /\ sig_log' = r.sig_log
        /\ ordered' = r.ordered
        /\ distributed' = r.distributed
  /\ UNCHANGED <<constructed, req>>

Next ==
  \/ \E a \in MixerAddrs : construct(a)
  \/ get_pub_key
  \/ \E d \in DealIds, am \in Amounts : NewDeal(d, am)
  \/ \E e \in Entries(req.amount) : AddEntry(e)
  \/ \E f \in ArrayFields : TruncateArray(f)
  \/ \E f \in ArrayFields : PadArray(f)
  \/ \E n \in {0, req.nb_recipients + 1} : Miscount(n)
  \/ execute_deal

Spec == Init /\ [][Next]_vars

\* ------------------------------------------------- the batch, as submitted
DealDone == last.op = "execute_deal"
DealOk == DealDone /\ last.err = ""
DealFailed == DealDone /\ last.err # ""
HasKey == ENCRYPTION_KEY \in DOMAIN store

\* entry i (from 1) of array f, as the caller submitted it
Chunk(f, i) == req[f].chunks[i]

EntryPresent(i) == \A f \in ArrayFields : i <= Len(req[f].chunks)

\* the user key is a point and the ciphertext was made for the stored key
Decryptable(i) ==
  /\ Chunk("pub_keys", i) # "u_bad"
  /\ Chunk("enc_recipients", i).key = <<store[ENCRYPTION_KEY], Chunk("pub_keys", i)>>

Recoverable(i) == Chunk("signatures", i).wellformed

Faulty(i) == ~EntryPresent(i) \/ ~Decryptable(i) \/ ~Recoverable(i)

AnyFault == \E i \in 1..req.nb_recipients : Faulty(i)

FirstFault ==
  CHOOSE i \in 1..req.nb_recipients :
    Faulty(i) /\ \A k \in 1..(i - 1) : ~Faulty(k)

ValidBatch == HasKey /\ LengthsMatch(req) /\ ~AnyFault

DecryptedAt(i) == Chunk("enc_recipients", i).plain[1]

\* the signature is good, of a signer that is not the claimed sender
Spoofed(i) ==
  /\ Chunk("signatures", i).wellformed
  /\ AddrOfPub(Chunk("signatures", i).signer) # Chunk("senders", i)

\* the ciphertext does not decrypt and the signature does not recover
DoubleFault(i) ==
  /\ EntryPresent(i)
  /\ Chunk("pub_keys", i) # "u_bad"
  /\ Chunk("enc_recipients", i).key # <<store[ENCRYPTION_KEY], Chunk("pub_keys", i)>>
  /\ ~Chunk("signatures", i).wellformed

Count(seq, a) == Cardinality({k \in 1..Len(seq) : seq[k] = a})

Position(name, i) == {k \in 1..Len(trace) : trace[k] = Step(name, i)}

CryptoSteps == {"derive_key", "decrypt", "verify_signature"}

\* --------------------------------------------------------------------- C1
\* C1: a valid batch on an initialized contract returns nb_recipients
\* addresses, and every address occurs in the returned list as often as it
\* occurs among the addresses decrypted from the entries
C1_ShufflePreservesMultiset ==
  (DealDone /\ ValidBatch) =>
    /\ last.err = ""
    /\ Len(last.ret) = req.nb_recipients
    /\ \A k \in 1..Len(last.ret) : last.ret[k] \in Recipients
    /\ \A a \in Recipients :
         Count(last.ret, a) = Cardinality({i \in 1..req.nb_recipients : DecryptedAt(i) = a})

C1_Witness ==
  /\ DealOk /\ ValidBatch
  /\ req.nb_recipients = 3
  /\ last.ret # ordered.list
  /\ \E a \in Recipients : Count(last.ret, a) = 2

\* --------------------------------------------------------------------- C2
\* C2: a batch with an array whose length is not nb_recipients times its
\* stride is rejected, and no step on any entry precedes the rejection
C2_MalformedBatchRejectedFirst ==
  (DealDone /\ HasKey /\ ~LengthsMatch(req)) => (last.err # "" /\ trace = <<>>)

\* --------------------------------------------------------------------- C3
\* C3: when an entry cannot be processed, execute_deal ends at the first
\* such entry: nothing is returned, printed as ordered or distributed, no
\* step of a later entry is taken, the entry is not pushed, and the
\* persisted state is what it was before the call
C3_FailFastAtomic ==
  /\ []((DealDone /\ HasKey /\ AnyFault) =>
          /\ last.err # ""
          /\ last.ret = <<>>
          /\ ~ordered.printed
          /\ ~distributed.called
          /\ trace # <<>>
          /\ trace[Len(trace)].i = FirstFault - 1
          /\ \A k \in 1..Len(trace) : trace[k].i <= FirstFault - 1
          /\ Position("push", FirstFault - 1) = {})
  /\ [][(last'.op = "execute_deal" /\ last'.err # "") => store' = store]_vars

C3_Witness ==
  /\ DealFailed /\ HasKey /\ LengthsMatch(req)
  /\ req.nb_recipients = 3
  /\ AnyFault /\ FirstFault = 2
  /\ Position("push", 0) # {}

\* --------------------------------------------------------------------- C4
\* C4: in an otherwise valid batch, an entry whose recovered signer is not
\* its claimed sender does not end the deal: the two addresses are printed,
\* the entry is pushed, the next entry is processed, and the recipient is in
\* the list that is returned and distributed
C4_SignerMismatchNotEnforced ==
  (DealDone /\ ValidBatch) =>
    \A i \in 1..req.nb_recipients :
      Spoofed(i) =>
        /\ last.err = ""
        /\ sig_log[i] = <<AddrOfPub(Chunk("signatures", i).signer), Chunk("senders", i)>>
        /\ sig_log[i][1] # sig_log[i][2]
        /\ Position("push", i - 1) # {}
        /\ (i < req.nb_recipients => Position("verify_signature", i) # {})
        /\ Len(last.ret) = req.nb_recipients
        /\ \E k \in 1..Len(last.ret) : last.ret[k] = DecryptedAt(i)
        /\ distributed.called
        /\ distributed.recipients = last.ret

C4_Witness ==
  /\ DealOk /\ ValidBatch
  /\ req.nb_recipients = 2
  /\ Spoofed(1) /\ ~Spoofed(2)
  /\ distributed.called

\* --------------------------------------------------------------------- C5
\* the batch with its entries submitted in the order pi
Reorder(rq, pi) ==
  [rq EXCEPT
     !.pub_keys = Bytes([k \in 1..Len(@.chunks) |-> @.chunks[pi[k]]], @.extra),
     !.enc_recipients = Bytes([k \in 1..Len(@.chunks) |-> @.chunks[pi[k]]], @.extra),
     !.senders = Bytes([k \in 1..Len(@.chunks) |-> @.chunks[pi[k]]], @.extra),
     !.signatures = Bytes([k \in 1..Len(@.chunks) |-> @.chunks[pi[k]]], @.extra)]

Orders(n) == {pi \in [1..n -> 1..n] : \A k, l \in 1..n : pi[k] = pi[l] => k = l}

\* C5: the list returned for a valid batch is the list returned for the
\* same entries submitted in any other order, so the returned order tells
\* nothing about the order of submission
C5_OrderHidesSubmission ==
  (DealOk /\ ValidBatch) =>
    \A pi \in Orders(req.nb_recipients) :
      run_execute_deal(store, Reorder(req, pi)).ret = last.ret

\* --------------------------------------------------------------------- C6
\* C6: get_pub_key and execute_deal end with the missing-key panic exactly
\* when construct has not run, and then execute_deal has taken no step on
\* any entry, printed no list, and made no distribute call
C6_UninitializedRejected ==
  (last.op \in {"get_pub_key", "execute_deal"}) =>
    /\ (last.err = "NoKey") <=> ~constructed
    /\ ~constructed =>
         /\ last.ret = <<>>
         /\ trace = <<>>
         /\ sig_log = <<>>
         /\ ~ordered.printed
         /\ ~distributed.called

C6_Witness ==
  /\ DealDone /\ ~constructed
  /\ req.nb_recipients = 2 /\ LengthsMatch(req)
  /\ last.err = "NoKey"

\* --------------------------------------------------------------------- C7
\* C7: the store never holds a key other than mixer_eth_addr and
\* encryption_key, only a construct step changes it, and a successful
\* get_pub_key returns the public key of the stored encryption key
C7_OnlyConstructWrites ==
  /\ [](DOMAIN store \subseteq {MIXER_ETH_ADDR, ENCRYPTION_KEY})
  /\ [][last'.op # "construct" => store' = store]_vars
  /\ []((last.op = "get_pub_key" /\ last.err = "") =>
          (HasKey /\ last.ret = PubOf(store[ENCRYPTION_KEY])))

C7_Witness ==
  /\ last.op = "get_pub_key" /\ last.err = ""
  /\ last.ret = PubOf("k2")
  /\ DOMAIN store = {MIXER_ETH_ADDR, ENCRYPTION_KEY}

\* --------------------------------------------------------------------- C8
\* C8: on an initialized contract a deal with nb_recipients = 0 returns the
\* empty list and derives no secret, decrypts nothing and recovers no signer
C8_EmptyDeal ==
  (DealDone /\ HasKey /\ req.nb_recipients = 0) =>
    /\ last.err = ""
    /\ last.ret = <<>>
    /\ sig_log = <<>>
    /\ \A k \in 1..Len(trace) : trace[k].step \notin CryptoSteps

C8_Witness ==
  /\ DealOk /\ HasKey
  /\ req.nb_recipients = 0
  /\ \A f \in ArrayFields : Len(req[f].chunks) = 2

\* --------------------------------------------------------------------- C9
\* C9 as stated: within an entry the signature step precedes the derivation
\* and the decryption, and an entry whose signature does not recover and
\* whose ciphertext does not decrypt ends the deal at the signature step
C9_SignatureBeforeDecrypt ==
  DealDone =>
    /\ \A k, l \in 1..Len(trace) :
         (/\ trace[k].i = trace[l].i
          /\ trace[k].step \in {"derive_key", "decrypt"}
          /\ trace[l].step = "verify_signature") => l < k
    /\ (HasKey /\ AnyFault /\ DoubleFault(FirstFault)) => last.err = "verify_signature"

\* C9 amended: within an entry the derivation and the decryption precede the
\* signature step, which is taken only after both, and an entry whose
\* signature does not recover and whose ciphertext does not decrypt ends the
\* deal at the decryption step
C9_DecryptBeforeSignature ==
  DealDone =>
    /\ \A k, l \in 1..Len(trace) :
         (/\ trace[k].i = trace[l].i
          /\ trace[k].step \in {"derive_key", "decrypt"}
          /\ trace[l].step = "verify_signature") => k < l
    /\ \A l \in 1..Len(trace) :
         trace[l].step = "verify_signature" =>
           /\ \E k \in 1..(l - 1) : trace[k] = Step("derive_key", trace[l].i)
           /\ \E k \in 1..(l - 1) : trace[k] = Step("decrypt", trace[l].i)
    /\ (HasKey /\ AnyFault /\ DoubleFault(FirstFault)) =>
         (last.err = "decrypt" /\ Position("verify_signature", FirstFault - 1) = {})

C9_Witness ==
  /\ DealFailed /\ HasKey /\ LengthsMatch(req)
  /\ AnyFault /\ FirstFault = 2 /\ DoubleFault(2)
  /\ last.err = "decrypt"
  /\ Position("verify_signature", 0) # {}

\* -------------------------------------------------------------------- C10
\* the positions (from 1) the returned list takes its elements from, after
\* the swaps of positions i and 10 mod (i + 1) for i from n - 1 down to 0
RECURSIVE SourcesFrom(_, _)
SourcesFrom(src, i) ==
  IF i < 0 THEN src
  ELSE LET j == 10 % (i + 1)
       IN SourcesFrom([src EXCEPT ![i + 1] = src[j + 1], ![j + 1] = src[i + 1]], i - 1)

Sources(n) == SourcesFrom([k \in 1..n |-> k], n - 1)

\* C10: the returned list is the decrypted list with positions i and
\* 10 mod (i + 1) swapped for i from the last position down to 0; three
\* recipients decrypted as r0, r1, r2 are returned as r2, r0, r1
C10_FixedShuffle ==
  DealOk =>
    /\ Len(last.ret) = Len(ordered.list)
    /\ \A k \in 1..Len(last.ret) : last.ret[k] = ordered.list[Sources(Len(ordered.list))[k]]
    /\ \A k \in 1..Len(ordered.list) : ordered.list[k] = DecryptedAt(k)
    /\ Len(ordered.list) = 3 =>
         last.ret = <<ordered.list[3], ordered.list[1], ordered.list[2]>>

C10_Witness ==
  /\ DealOk
  /\ ordered.list = <<"a1", "a2", "a3">>
  /\ last.ret = <<"a3", "a1", "a2">>

====
